---------------------------- MODULE Spec2Model ----------------------------
(***************************************************************************)
(* A model of the health dashboard's hooks: useChartNavigation (reference  *)
(* date, week/month windows, three-month window), useVisualizations        *)
(* (registry and data-availability filter), useVisualizationHelpers        *)
(* (expand/collapse), usePatientData (loading/error/data state) and the    *)
(* dashboards that compose them.                                           *)
(*                                                                         *)
(* Dates are JavaScript Date values read through their local-time fields   *)
(* (getFullYear, getMonth, getDate, getDay, setMonth, setDate, setHours),  *)
(* which is all the code uses.  A Date is modelled as the record           *)
(* [year, month (0..11), date (1..31), ms (millisecond of the day)]; the   *)
(* local time zone is taken to have a fixed offset (no daylight-saving     *)
(* transition), so local fields and day numbers correspond one to one.     *)
(***************************************************************************)
EXTENDS Integers, Sequences, FiniteSets, TLC

VARIABLES
    currentDate,    \* useChartNavigation: chart type -> currentDate of that hook instance
    navOffset,      \* chart type -> net number of goToNext minus goToPrevious calls (bounds the model)
    viewMode,       \* 'patient' or 'physician': which dashboard is mounted
    expandedItem,   \* useVisualizationHelpers: the expanded chart id, or null
    patientProp,    \* the patientId prop the dashboard receives from its parent
    patientId,      \* the argument of usePatientData (PhysicianDashboard: selectedPatientId)
    data,           \* usePatientData state
    loading,        \* usePatientData state
    error,          \* usePatientData state
    lastFetchedId,  \* usePatientData state
    inflight,       \* patient id -> number of DataService.getPatientData promises not yet settled
    effectPending,  \* the usePatientData effect is due (its dependencies changed in the last render)
    syncPending,    \* the PhysicianDashboard effect that follows the patientId prop is due
    overlapped,     \* some load started while another was in flight, since no load was in flight
    errorBoundary,  \* the ErrorBoundary instance around the dashboard: its state, the error it
                    \* is handling, and whether its document is still loaded
    readings        \* the metric array a chart component reads: the dates of its readings

navVars == <<currentDate, navOffset>>
helperVars == <<viewMode, expandedItem>>
hookVars == <<patientId, data, loading, error, lastFetchedId, inflight, effectPending, overlapped>>
propVars == <<patientProp, syncPending>>
vars == <<currentDate, navOffset, viewMode, expandedItem, patientProp, patientId, data,
          loading, error, lastFetchedId, inflight, effectPending, syncPending, overlapped,
          errorBoundary, readings>>

NULL == "null"

(***************************************************************************)
(* Bounds of the model.                                                    *)
(***************************************************************************)
\* A hook instance is navigated at most MaxNav steps away from its initial date.
MaxNav == 7
\* In a dashboard the seven hook instances together are at most MaxDashNav steps away.
MaxDashNav == 1
\* The longest metric array of a patient data object.
MaxLen == 1
\* The most getPatientData promises in flight at once: for the hook on its own ...
MaxInflight == 2
\* ... and in a dashboard.
MaxDashInflight == 1

(***************************************************************************)
(* ErrorBoundary, the class component App puts around the dashboard.       *)
(***************************************************************************)
\* What a child may throw while rendering, and the component stacks React
\* reports with it.
ThrownErrors == {"TypeError: Cannot read properties of undefined",
                 "RangeError: Invalid time value"}
ComponentStacks == {"at Dashboard", "at SleepChart"}
NodeEnvs == {"development", "production"}

NoCaught == [error |-> NULL, componentStack |-> NULL]

\* The instance after its constructor.
InitialBoundary ==
    [state |-> [hasError |-> FALSE, error |-> NULL, errorInfo |-> NULL],
     caught |-> NoCaught,
     mounted |-> TRUE]

\* Faulty variant of MergeState: the partial state replaces the state.
MergeState_Replace(st, partial) ==
    [k \in DOMAIN st |-> IF k \in DOMAIN partial THEN partial[k]
                         ELSE IF k = "hasError" THEN FALSE ELSE NULL]

\* React merges the partial state a class component returns or sets.
MergeState(st, partial) ==
    [k \in DOMAIN st |-> IF k \in DOMAIN partial THEN partial[k] ELSE st[k]]

getDerivedStateFromError(err) == [hasError |-> TRUE]

\* No child has thrown, and no chart component's readings are looked at.
NoErrorNoReadings == errorBoundary = InitialBoundary /\ readings = {}

\* The boundary is neither handling an error nor unloaded.
BoundaryIdle == errorBoundary.mounted /\ errorBoundary.caught = NoCaught

\* A child throws err while rendering: React calls getDerivedStateFromError
\* and renders the boundary again.  Children are rendered only while
\* hasError is false.
ChildThrows(err, componentStack) ==
    /\ BoundaryIdle
    /\ ~errorBoundary.state.hasError
    /\ errorBoundary' =
          [errorBoundary EXCEPT
              !.state = MergeState(@, getDerivedStateFromError(err)),
              !.caught = [error |-> err, componentStack |-> componentStack]]
    /\ UNCHANGED <<navVars, helperVars, hookVars, propVars, readings>>

\* In the commit that follows: this.setState({ error, errorInfo }).
componentDidCatch ==
    /\ errorBoundary.mounted
    /\ errorBoundary.caught # NoCaught
    /\ errorBoundary' =
          [errorBoundary EXCEPT
              !.state = MergeState(@, [error |-> errorBoundary.caught.error,
                                       errorInfo |-> errorBoundary.caught.componentStack]),
              !.caught = NoCaught]
    /\ UNCHANGED <<navVars, helperVars, hookVars, propVars, readings>>

\* What render returns; the children are the dashboard for the role and the
\* patient App passes.
render(nodeEnv) ==
    IF errorBoundary.state.hasError
    THEN [kind |-> "fallback",
          details |-> nodeEnv = "development" /\ errorBoundary.state.error # NULL,
          viewMode |-> "", patientId |-> ""]
    ELSE [kind |-> "children", details |-> FALSE,
          viewMode |-> viewMode, patientId |-> patientProp]

\* The 'Refresh Page' button of the fallback UI: window.location.reload()
\* unloads the document and this instance with it.
reloadPage ==
    /\ BoundaryIdle
    /\ render("production").kind = "fallback"
    /\ errorBoundary' = [errorBoundary EXCEPT !.mounted = FALSE]
    /\ UNCHANGED <<navVars, helperVars, hookVars, propVars, readings>>

(***************************************************************************)
(* JavaScript Date arithmetic (local-time fields).                         *)
(***************************************************************************)
\* Days from 1970-01-01 to the first day of month m (0..11) of year y.
DaysFromCivil(y, m) ==
    LET mm  == m + 1
        yy  == IF mm <= 2 THEN y - 1 ELSE y
        era == yy \div 400
        yoe == yy - era * 400
        mp  == IF mm > 2 THEN mm - 3 ELSE mm + 9
        doy == (153 * mp + 2) \div 5
        doe == yoe * 365 + yoe \div 4 - yoe \div 100 + doy
    IN  era * 146097 + doe - 719468

\* ECMAScript MakeDay: month and day of month may lie outside their ranges.
DayNumber(y, m, d) == DaysFromCivil(y + (m \div 12), m % 12) + d - 1

\* The calendar fields of day number n.
CivilFromDays(n) ==
    LET z   == n + 719468
        era == z \div 146097
        doe == z - era * 146097
        yoe == (doe - doe \div 1460 + doe \div 36524 - doe \div 146096) \div 365
        doy == doe - (365 * yoe + yoe \div 4 - yoe \div 100)
        mp  == (5 * doy + 2) \div 153
        d   == doy - (153 * mp + 2) \div 5 + 1
        mm  == IF mp < 10 THEN mp + 3 ELSE mp - 9
        y   == yoe + era * 400 + (IF mm <= 2 THEN 1 ELSE 0)
    IN  [year |-> y, month |-> mm - 1, date |-> d]

\* new Date(y, m, d) with the time of day ms: out-of-range fields roll over.
MakeDate(y, m, d, ms) ==
    LET c == CivilFromDays(DayNumber(y, m, d))
    IN  [year |-> c.year, month |-> c.month, date |-> c.date, ms |-> ms]

DayOf(D) == DayNumber(D.year, D.month, D.date)

\* Faulty variant of getDay: weeks counted from Monday.
getDay_MondayFirst(D) == (DayOf(D) + 3) % 7

\* Date.prototype.getDay: 0 is Sunday (1970-01-01 was a Thursday).
getDay(D) == (DayOf(D) + 4) % 7

setMonth(D, m) == MakeDate(D.year, m, D.date, D.ms)
setDate(D, d) == MakeDate(D.year, D.month, d, D.ms)
setHours(D, ms) == [D EXCEPT !.ms = ms]

\* a < b, a <= b on Date values (comparison of the time values).
DateLT(a, b) == DayOf(a) < DayOf(b) \/ (DayOf(a) = DayOf(b) /\ a.ms < b.ms)
DateLE(a, b) == DateLT(a, b) \/ (DayOf(a) = DayOf(b) /\ a.ms = b.ms)

EndOfDayMs == ((23 * 60 + 59) * 60 + 59) * 1000 + 999

(***************************************************************************)
(* useChartNavigation.                                                     *)
(***************************************************************************)
\* The chart types the dashboards mount, and one type outside the registry.
DashboardChartTypes ==
    {"glucose", "bloodPressure", "exercise", "sleep", "pain", "mood", "mealContents"}
ChartTypes == DashboardChartTypes \cup {"other"}

DefaultInitialDate == MakeDate(2025, 4, 1, 0)

\* Faulty variant of navigationType: a second chart type navigated by month.
navigationType_SleepByMonth(chartType) ==
    IF chartType \in {"mood", "sleep"} THEN "month" ELSE "week"

navigationType(chartType) == IF chartType = "mood" THEN "month" ELSE "week"
navigationLabel(chartType) == IF chartType = "mood" THEN "Month" ELSE "Week"

\* The updater functions passed to setCurrentDate.
PreviousDate(chartType, prev) ==
    IF navigationType(chartType) = "month"
    THEN setMonth(prev, prev.month - 1)
    ELSE setDate(prev, prev.date - 7)

\* Faulty variant of NextDate: the week step is one day short.
NextDate_SixDays(chartType, prev) ==
    IF chartType = "mood"
    THEN setMonth(prev, prev.month + 1)
    ELSE setDate(prev, prev.date + 6)

NextDate(chartType, prev) ==
    IF navigationType(chartType) = "month"
    THEN setMonth(prev, prev.month + 1)
    ELSE setDate(prev, prev.date + 7)

\* Faulty variant of SetCurrentDate: one date shared by every hook instance.
SetCurrentDate_Shared(t, d) == [u \in DOMAIN currentDate |-> d]

\* setCurrentDate of the hook instance of chart type t.
SetCurrentDate(t, d) == [currentDate EXCEPT ![t] = d]

\* Faulty variant of getDateRange: the month window ends on the first day of the next month.
getDateRange_EndNextMonth(chartType, cur) ==
    IF chartType = "mood"
    THEN [start |-> MakeDate(cur.year, cur.month, 1, 0),
          end   |-> MakeDate(cur.year, cur.month + 1, 1, 0)]
    ELSE LET startOfWeek == setHours(setDate(cur, cur.date - getDay(cur)), 0)
             endOfWeek   == setHours(setDate(startOfWeek, startOfWeek.date + 6), EndOfDayMs)
         IN  [start |-> startOfWeek, end |-> endOfWeek]

getDateRange(chartType, cur) ==
    IF navigationType(chartType) = "month"
    THEN [start |-> MakeDate(cur.year, cur.month, 1, 0),
          end   |-> MakeDate(cur.year, cur.month + 1, 0, 0)]
    ELSE LET startOfWeek == setHours(setDate(cur, cur.date - getDay(cur)), 0)
             endOfWeek   == setHours(setDate(startOfWeek, startOfWeek.date + 6), EndOfDayMs)
         IN  [start |-> startOfWeek, end |-> endOfWeek]

dataStartDate == MakeDate(2024, 6, 1, 0)
dataEndDate == MakeDate(2025, 6, 31, 0)

getThreeMonthRange(cur) ==
    LET back  == setMonth(cur, cur.month - 3)
        start == IF DateLT(back, dataStartDate) THEN dataStartDate ELSE back
        end   == IF DateLT(dataEndDate, cur) THEN dataEndDate ELSE cur
    IN  [start |-> start, end |-> end]

goToPrevious(t) ==
    /\ t \in DOMAIN currentDate
    /\ navOffset[t] > -MaxNav
    /\ currentDate' = SetCurrentDate(t, PreviousDate(t, currentDate[t]))
    /\ navOffset' = [navOffset EXCEPT ![t] = @ - 1]

goToNext(t) ==
    /\ t \in DOMAIN currentDate
    /\ navOffset[t] < MaxNav
    /\ currentDate' = SetCurrentDate(t, NextDate(t, currentDate[t]))
    /\ navOffset' = [navOffset EXCEPT ![t] = @ + 1]

(***************************************************************************)
(* Patient data objects (the record DataService.getPatientData resolves    *)
(* with).  A metric field is absent (undefined) or holds an array, of      *)
(* which only the length matters to the hooks.                             *)
(***************************************************************************)
MetricFields ==
    {"glucoseData", "bloodPressureData", "exerciseData", "moodData",
     "painData", "sleepData", "mealData"}

Undefined == [present |-> FALSE, len |-> 0]
ArrayOf(n) == [present |-> TRUE, len |-> n]
FieldValues == {Undefined} \cup {ArrayOf(n) : n \in 0..MaxLen}

\* null, as a value of the same shape as a data object.
NullData ==
    [kind |-> "null", patient |-> "", patientInfo |-> FALSE,
     fields |-> [f \in MetricFields |-> Undefined]]

DataObject(p, info, fs) ==
    [kind |-> "object", patient |-> p, patientInfo |-> info, fields |-> fs]

\* data[key]: undefined for a key the object does not have.
Get(d, key) == IF key \in DOMAIN d.fields THEN d.fields[key] ELSE Undefined

(***************************************************************************)
(* useVisualizations.                                                      *)
(***************************************************************************)
\* The keys of allVisualizations, in insertion order (Object.entries order).
allVisualizations ==
    <<"pain", "bloodPressure", "glucose", "exercise", "mealContents", "mood", "sleep">>

RegistryKeys == {allVisualizations[i] : i \in 1..Len(allVisualizations)}

\* data[k] && data[k].length > 0
NonEmpty(v) == v.present /\ v.len > 0

\* Faulty variant of IsAvailable: the length of the array is not looked at.
IsAvailable_NoLengthCheck(d, key) ==
    IF key = "mealContents" /\ Get(d, "mealData").present
    THEN TRUE
    ELSE Get(d, key \o "Data").present

\* The body of the reduce callback: whether acc[key] is set.
IsAvailable(d, key) ==
    LET dataKey == key \o "Data"
    IN  IF key = "mealContents" /\ NonEmpty(Get(d, "mealData"))
        THEN TRUE
        ELSE NonEmpty(Get(d, dataKey))

\* The keys of availableVisualizations, in order.
availableVisualizations(d) ==
    IF d.kind = "null"
    THEN <<>>
    ELSE SelectSeq(allVisualizations, LAMBDA key : IsAvailable(d, key))

ChartId(mode, index) == mode \o "-chart-" \o ToString(index)

\* Faulty variant of selectedVisualizations: a chart id carries the position
\* of its key in the registry instead of its position among the available keys.
selectedVisualizations_RegistryIndex(mode, d) ==
    LET availableKeys == availableVisualizations(d)
        positions == {i \in 1..Len(allVisualizations) :
                         \E j \in 1..Len(availableKeys) : availableKeys[j] = allVisualizations[i]}
    IN  [id \in {ChartId(mode, i - 1) : i \in positions} |->
            allVisualizations[CHOOSE i \in positions : ChartId(mode, i - 1) = id]]

\* chart id -> visualization key.
selectedVisualizations(mode, d) ==
    LET availableKeys == availableVisualizations(d)
        n == Len(availableKeys)
    IN  [id \in {ChartId(mode, i) : i \in 0..(n - 1)} |->
            availableKeys[(CHOOSE i \in 0..(n - 1) : ChartId(mode, i) = id) + 1]]

(***************************************************************************)
(* useVisualizationHelpers and the dashboards' renderVisualizationWithMode.*)
(***************************************************************************)
ViewModes == {"patient", "physician"}

\* A string or null read as a condition.
Truthy(str) == str # NULL /\ str # ""
ChartIds == {ChartId(mode, i) : mode \in ViewModes, i \in 0..(Len(allVisualizations) - 1)}

\* Faulty variant of ToggleExpanded: a click while any chart is expanded collapses it.
ToggleExpanded_CollapseAny(prev, itemId) == IF prev = NULL THEN itemId ELSE NULL

\* The updater passed to setExpandedItem.
ToggleExpanded(prev, itemId) == IF prev = itemId THEN NULL ELSE itemId

IsExpanded(itemId) == expandedItem = itemId

Placeholder(message) ==
    [kind |-> "placeholder", message |-> message, component |-> "", viewMode |-> "",
     isExpanded |-> FALSE]

ChartElement(type, mode, itemId) ==
    [kind |-> "chart", message |-> "", component |-> type, viewMode |-> mode,
     isExpanded |-> IsExpanded(itemId)]

\* useVisualizationHelpers.renderVisualization, called with the patient id of
\* the dashboard; the viewMode it passes is the literal 'patient'.
renderVisualization(visualizationType, itemId) ==
    IF patientId = ""
    THEN Placeholder("Please select a patient to view data.")
    ELSE IF visualizationType \notin RegistryKeys
         THEN Placeholder("Invalid visualization")
         ELSE ChartElement(visualizationType, "patient", itemId)

\* Faulty variant of PhysicianRender: the helpers' renderVisualization is
\* passed to the grid as it is.
PhysicianRender_NotOverridden(visualizationType, windowId) ==
    renderVisualization(visualizationType, windowId)

\* Faulty variant of PhysicianRender: the registry is looked up before the
\* patient is checked.
PhysicianRender_RegistryFirst(visualizationType, windowId) ==
    IF visualizationType \notin RegistryKeys
    THEN Placeholder("Invalid visualization")
    ELSE IF patientId = ""
         THEN Placeholder("Please select a patient to view data.")
         ELSE ChartElement(visualizationType, "physician", windowId)

\* PhysicianDashboard.renderVisualizationWithMode
PhysicianRender(visualizationType, windowId) ==
    IF patientId = ""
    THEN Placeholder("Please select a patient to view data.")
    ELSE IF visualizationType \notin RegistryKeys
         THEN Placeholder("Invalid visualization")
         ELSE ChartElement(visualizationType, "physician", windowId)

\* PatientDashboard.renderVisualizationWithMode
PatientRender(visualizationType, boxId) ==
    IF visualizationType \notin RegistryKeys
    THEN Placeholder("Invalid visualization")
    ELSE ChartElement(visualizationType, "patient", boxId)

renderVisualizationWithMode(visualizationType, itemId) ==
    IF viewMode = "physician"
    THEN PhysicianRender(visualizationType, itemId)
    ELSE PatientRender(visualizationType, itemId)

handleExpand(itemId) ==
    /\ ~effectPending /\ ~syncPending
    /\ expandedItem' = ToggleExpanded(expandedItem, itemId)
    /\ UNCHANGED <<viewMode, navVars, hookVars, propVars, errorBoundary, readings>>

\* Faulty variant of PhysicianGrid: the grid is disabled only for null data.
PhysicianGrid_DisabledOnNull ==
    [rendered |-> Truthy(patientId),
     selectedVisualizations |-> selectedVisualizations("physician", data),
     disabled |-> data.kind = "null",
     placeholderText |-> "No data available for this patient."]

\* The DashboardGrid element of PhysicianDashboard: whether it is rendered
\* (selectedPatientId && ...) and the props it is given.
PhysicianGrid ==
    [rendered |-> Truthy(patientId),
     selectedVisualizations |-> selectedVisualizations("physician", data),
     disabled |-> Len(availableVisualizations(data)) = 0,
     placeholderText |-> "No data available for this patient."]

(***************************************************************************)
(* DataService.getPatientData, as usePatientData sees it: a promise that   *)
(* resolves with a record (or with something that is not one) or rejects.  *)
(***************************************************************************)
Patients == {"Patient_001", "Patient_002"}
\* A patient id that is not a string (typeof id !== 'string').
NonStringIds == {"<number 42>"}
PatientIdValues == {""} \cup Patients \cup NonStringIds

\* The record of each patient: every metric, or some of them.
ServiceRecord(id) ==
    IF id = "Patient_001"
    THEN DataObject(id, TRUE, [f \in MetricFields |-> ArrayOf(MaxLen)])
    ELSE DataObject(id, TRUE,
            [f \in MetricFields |->
                IF f \in {"glucoseData", "mealData"} THEN ArrayOf(MaxLen)
                ELSE IF f = "sleepData" THEN ArrayOf(0)
                ELSE Undefined])

NoError == [isError |-> FALSE, message |-> ""]
Resolved(value) == [kind |-> "resolved", value |-> value, err |-> NoError]
Rejected(err) == [kind |-> "rejected", value |-> NullData, err |-> err]

\* What the awaited promise may settle with.
ServiceOutcomes(id) ==
    { Resolved(ServiceRecord(id)),
      Resolved([ServiceRecord(id) EXCEPT !.patientInfo = FALSE]),
      Resolved(NullData),
      Rejected([isError |-> TRUE, message |-> "Failed to load patient data"]),
      Rejected([isError |-> FALSE, message |-> ""]) }

(***************************************************************************)
(* usePatientData.                                                         *)
(***************************************************************************)
HookState == [data |-> data, loading |-> loading, error |-> error,
              lastFetchedId |-> lastFetchedId]

\* Faulty variant of loadDataStart: no early return for data already loaded.
loadDataStart_NoEarlyReturn(id, st) ==
    IF id = "" \/ id \in NonStringIds
    THEN [state |-> [st EXCEPT !.loading = FALSE, !.data = NullData, !.error = NULL],
          fetch |-> FALSE]
    ELSE [state |-> [st EXCEPT !.loading = TRUE, !.error = NULL],
          fetch |-> TRUE]

\* loadData up to its await: the state it leaves and whether it calls
\* DataService.getPatientData.  The closure reads the state of the render
\* that created it.
loadDataStart(id, st) ==
    IF id = st.lastFetchedId /\ st.data.kind # "null" /\ ~Truthy(st.error)
    THEN [state |-> st, fetch |-> FALSE]
    ELSE IF id = "" \/ id \in NonStringIds
         THEN [state |-> [st EXCEPT !.loading = FALSE, !.data = NullData, !.error = NULL],
               fetch |-> FALSE]
         ELSE [state |-> [st EXCEPT !.loading = TRUE, !.error = NULL],
               fetch |-> TRUE]

\* Faulty variant of ErrorMessage: err.message whatever err is.
ErrorMessage_NoInstanceCheck(err) == err.message

\* err instanceof Error ? err.message : 'Unknown error occurred'
ErrorMessage(err) == IF err.isError THEN err.message ELSE "Unknown error occurred"

\* loadData after its await, for the outcome o of the promise: try, catch, finally.
loadDataSettle(id, o, st) ==
    IF o.kind = "resolved" /\ o.value.kind # "null" /\ o.value.patientInfo
    THEN [st EXCEPT !.data = o.value, !.lastFetchedId = id, !.loading = FALSE]
    ELSE LET err == IF o.kind = "resolved"
                    THEN [isError |-> TRUE, message |-> "Invalid data structure received"]
                    ELSE o.err
         IN  [st EXCEPT !.error = ErrorMessage(err), !.data = NullData, !.loading = FALSE]

\* Faulty variant of patientDataEffect: nothing is reset for an empty patient id.
patientDataEffect_NoReset(st) ==
    IF patientId # ""
    THEN loadDataStart(patientId, st)
    ELSE [state |-> st, fetch |-> FALSE]

\* The body of the effect of usePatientData.
patientDataEffect(st) ==
    IF patientId # ""
    THEN loadDataStart(patientId, st)
    ELSE [state |-> [data |-> NullData, loading |-> FALSE, error |-> NULL,
                     lastFetchedId |-> NULL],
          fetch |-> FALSE]

InflightTotal(f) == f["Patient_001"] + f["Patient_002"]

\* Faulty variant of LoadDataChanged: lastFetchedId is missing from the
\* dependencies of loadData.
LoadDataChanged_NoLastFetchedId(st) ==
    \/ st.data # data
    \/ st.error # error

\* loadData is re-created when lastFetchedId, data or error changed.
LoadDataChanged(st) ==
    \/ st.lastFetchedId # lastFetchedId
    \/ st.data # data
    \/ st.error # error

\* Commit the hook state st of the next render; started says whether a fetch was issued.
CommitHook(st, started, newPatientId) ==
    /\ data' = st.data
    /\ loading' = st.loading
    /\ error' = st.error
    /\ lastFetchedId' = st.lastFetchedId
    /\ patientId' = newPatientId
    /\ effectPending' = (newPatientId # patientId \/ LoadDataChanged(st))
    /\ overlapped' = IF started THEN InflightTotal(inflight) > 0 ELSE overlapped

\* Faulty variant of syncSelectedPatient: an empty prop is followed too.
syncSelectedPatient_FollowsEmpty ==
    IF syncPending /\ patientProp # patientId
    THEN patientProp
    ELSE patientId

\* The effect that makes PhysicianDashboard follow its patientId prop:
\* the selectedPatientId it sets.
syncSelectedPatient ==
    IF syncPending /\ patientProp # "" /\ patientProp # patientId
    THEN patientProp
    ELSE patientId

\* The effects that are due run after the render, in the order of their
\* declaration, before anything else happens.  At most cap promises are in
\* flight.
FlushEffects(cap) ==
    /\ effectPending \/ syncPending
    /\ LET r == IF effectPending THEN patientDataEffect(HookState)
                ELSE [state |-> HookState, fetch |-> FALSE]
           sel == syncSelectedPatient
       IN  /\ r.fetch => InflightTotal(inflight) < cap
           /\ inflight' = IF r.fetch THEN [inflight EXCEPT ![patientId] = @ + 1]
                          ELSE inflight
           /\ CommitHook(r.state, r.fetch, sel)
           /\ syncPending' = (viewMode = "physician" /\ sel # patientId)
    /\ UNCHANGED <<patientProp, viewMode, expandedItem, navVars, errorBoundary, readings>>

\* A promise of getPatientData(id) settles with outcome o and loadData resumes.
FetchSettle(id, o) ==
    /\ ~effectPending /\ ~syncPending
    /\ inflight[id] > 0
    /\ inflight' = [inflight EXCEPT ![id] = @ - 1]
    /\ CommitHook(loadDataSettle(id, o, HookState), FALSE, patientId)
    /\ UNCHANGED <<patientProp, syncPending, viewMode, expandedItem, navVars, errorBoundary, readings>>

\* The parent renders the dashboard with another patientId prop.
SetPatientProp(p) ==
    /\ ~effectPending /\ ~syncPending
    /\ p # patientProp
    /\ patientProp' = p
    /\ IF viewMode = "physician"
       THEN /\ syncPending' = TRUE
            /\ UNCHANGED hookVars
       ELSE /\ syncPending' = FALSE
            /\ patientId' = p
            /\ effectPending' = TRUE
            /\ UNCHANGED <<data, loading, error, lastFetchedId, inflight, overlapped>>
    /\ UNCHANGED <<viewMode, expandedItem, navVars, errorBoundary, readings>>

\* refetch: setLastFetchedId(null), then loadData with the closure of this render.
refetch ==
    /\ ~effectPending /\ ~syncPending
    /\ patientId # ""
    /\ LET r == loadDataStart(patientId, HookState)
       IN  /\ r.fetch => InflightTotal(inflight) < MaxInflight
           /\ inflight' = IF r.fetch THEN [inflight EXCEPT ![patientId] = @ + 1]
                          ELSE inflight
           /\ CommitHook([r.state EXCEPT !.lastFetchedId = NULL], r.fetch, patientId)
    /\ UNCHANGED <<patientProp, syncPending, viewMode, expandedItem, navVars, errorBoundary, readings>>

clearData ==
    /\ ~effectPending /\ ~syncPending
    /\ CommitHook([data |-> NullData, loading |-> FALSE, error |-> NULL,
                   lastFetchedId |-> NULL], FALSE, patientId)
    /\ UNCHANGED <<inflight, patientProp, syncPending, viewMode, expandedItem, navVars,
                   errorBoundary, readings>>

\* usePatientData after its first render, called with id.
InitHook(id) ==
    /\ patientId = id
    /\ data = NullData
    /\ loading = TRUE
    /\ error = NULL
    /\ lastFetchedId = NULL
    /\ inflight = [p \in Patients |-> 0]
    /\ effectPending = TRUE
    /\ overlapped = FALSE

(***************************************************************************)
(* The dashboards: PatientDashboard and PhysicianDashboard mount           *)
(* usePatientData, useVisualizations, useVisualizationHelpers and one      *)
(* useChartNavigation per chart type, each with the default initial date.  *)
(***************************************************************************)
Abs(n) == IF n < 0 THEN -n ELSE n

RECURSIVE SumAbs(_, _)
SumAbs(f, S) ==
    IF S = {} THEN 0
    ELSE LET x == CHOOSE y \in S : TRUE
         IN  Abs(f[x]) + SumAbs(f, S \ {x})

NavBudget == SumAbs(navOffset', DOMAIN navOffset') <= MaxDashNav

DashGoToPrevious(t) ==
    /\ ~effectPending /\ ~syncPending
    /\ goToPrevious(t)
    /\ NavBudget
    /\ UNCHANGED <<helperVars, hookVars, propVars, errorBoundary, readings>>

DashGoToNext(t) ==
    /\ ~effectPending /\ ~syncPending
    /\ goToNext(t)
    /\ NavBudget
    /\ UNCHANGED <<helperVars, hookVars, propVars, errorBoundary, readings>>

Init ==
    /\ viewMode \in ViewModes
    /\ patientProp \in {""} \cup Patients
    /\ InitHook(patientProp)
    /\ NoErrorNoReadings
    /\ syncPending = (viewMode = "physician")
    /\ expandedItem = NULL
    /\ currentDate = [t \in DashboardChartTypes |-> DefaultInitialDate]
    /\ navOffset = [t \in DashboardChartTypes |-> 0]

Next ==
    \/ FlushEffects(MaxDashInflight)
    \/ \E id \in Patients : \E o \in ServiceOutcomes(id) : FetchSettle(id, o)
    \/ \E p \in {""} \cup Patients : SetPatientProp(p)
    \/ \E mode \in ViewModes, i \in 0..(Len(allVisualizations) - 1) :
          mode = viewMode /\ handleExpand(ChartId(mode, i))
    \/ \E t \in DashboardChartTypes : DashGoToPrevious(t)
    \/ \E t \in DashboardChartTypes : DashGoToNext(t)

Spec == Init /\ [][Next]_vars

\* The dashboards with every chart left on its default date: what they
\* render does not depend on the navigation dates.
NextRender ==
    \/ FlushEffects(MaxDashInflight)
    \/ \E id \in Patients : \E o \in ServiceOutcomes(id) : FetchSettle(id, o)
    \/ \E p \in {""} \cup Patients : SetPatientProp(p)
    \/ \E mode \in ViewModes, i \in 0..(Len(allVisualizations) - 1) :
          mode = viewMode /\ handleExpand(ChartId(mode, i))

SpecRender == Init /\ [][NextRender]_vars

\* React runs the effects that are due after every render.
SpecRenderFair == SpecRender /\ WF_vars(FlushEffects(MaxDashInflight))

(***************************************************************************)
(* usePatientData on its own, called with any patient id, with refetch and *)
(* clearData called by its user.                                           *)
(***************************************************************************)
NoNavigation ==
    /\ currentDate = [t \in DashboardChartTypes |-> DefaultInitialDate]
    /\ navOffset = [t \in DashboardChartTypes |-> 0]

InitData ==
    /\ viewMode = "patient"
    /\ patientProp \in PatientIdValues
    /\ InitHook(patientProp)
    /\ NoErrorNoReadings
    /\ syncPending = FALSE
    /\ expandedItem = NULL
    /\ NoNavigation

NextData ==
    \/ FlushEffects(MaxInflight)
    \/ \E id \in Patients : \E o \in ServiceOutcomes(id) : FetchSettle(id, o)
    \/ \E p \in PatientIdValues : SetPatientProp(p)
    \/ refetch
    \/ clearData

SpecData == InitData /\ [][NextData]_vars

\* React runs the effects that are due after every render.
SpecDataFair == SpecData /\ WF_vars(FlushEffects(MaxInflight))

(***************************************************************************)
(* useVisualizations on its own, rendered with any data object.            *)
(***************************************************************************)
DataObjects ==
    {NullData} \cup
    { DataObject(p, info, fs) :
        p \in {"Patient_001"}, info \in BOOLEAN, fs \in [MetricFields -> FieldValues] }

\* The hook is rendered again with another data object: a record arrives ...
RenderWithData(d) ==
    /\ data = NullData
    /\ data' = d
    /\ UNCHANGED <<patientId, loading, error, lastFetchedId, inflight, effectPending,
                   overlapped, navVars, helperVars, propVars, errorBoundary, readings>>

\* ... or data is reset to null.
RenderWithNull ==
    /\ data # NullData
    /\ data' = NullData
    /\ UNCHANGED <<patientId, loading, error, lastFetchedId, inflight, effectPending,
                   overlapped, navVars, helperVars, propVars, errorBoundary, readings>>

InitViz ==
    /\ viewMode \in ViewModes
    /\ NoErrorNoReadings
    /\ data = NullData
    /\ patientProp = "Patient_001"
    /\ patientId = "Patient_001"
    /\ loading = FALSE
    /\ error = NULL
    /\ lastFetchedId = NULL
    /\ inflight = [p \in Patients |-> 0]
    /\ effectPending = FALSE
    /\ overlapped = FALSE
    /\ syncPending = FALSE
    /\ expandedItem = NULL
    /\ NoNavigation

NextViz ==
    \/ data = NullData /\ \E d \in DataObjects \ {NullData} : RenderWithData(d)
    \/ RenderWithNull

SpecViz == InitViz /\ [][NextViz]_vars

\* No dashboard around the hook: the other hooks' state stays as it is.
NoDashboard ==
    /\ viewMode = "patient"
    /\ patientProp = ""
    /\ patientId = ""
    /\ data = NullData
    /\ loading = FALSE
    /\ error = NULL
    /\ lastFetchedId = NULL
    /\ inflight = [p \in Patients |-> 0]
    /\ effectPending = FALSE
    /\ overlapped = FALSE
    /\ syncPending = FALSE
    /\ expandedItem = NULL
    /\ errorBoundary = InitialBoundary

\* One useChartNavigation instance and nothing else.
NoChart == NoDashboard /\ readings = {}

(***************************************************************************)
(* One useChartNavigation instance on its own, for any chart type and any  *)
(* initial date inside the data span.                                      *)
(***************************************************************************)
DaysInMonth(y, m) ==
    IF m = 1 THEN (IF (y % 4 = 0 /\ y % 100 # 0) \/ y % 400 = 0 THEN 29 ELSE 28)
    ELSE IF m \in {3, 5, 8, 10} THEN 30 ELSE 31

TimesOfDay == {0, 12 * 60 * 60 * 1000, EndOfDayMs}

InitialDates ==
    { D \in { MakeDate(y, m, d, ms) : y \in {2024, 2025}, m \in 0..11,
                                       d \in {1, 15, 28, 29, 30, 31}, ms \in TimesOfDay } :
        /\ DateLE(dataStartDate, D)
        /\ DateLE(D, dataEndDate) }

InitNav ==
    /\ \E t \in ChartTypes, D \in InitialDates : currentDate = (t :> D)
    /\ navOffset = [t \in DOMAIN currentDate |-> 0]
    /\ NoChart

NextNav ==
    \E t \in ChartTypes :
        \/ goToPrevious(t) /\ UNCHANGED <<helperVars, hookVars, propVars, errorBoundary, readings>>
        \/ goToNext(t) /\ UNCHANGED <<helperVars, hookVars, propVars, errorBoundary, readings>>

SpecNav == InitNav /\ [][NextNav]_vars

(***************************************************************************)
(* SleepChart and BloodPressureChart: a chart component with its           *)
(* navigation, its view mode and the metric array it reads.  Of a reading  *)
(* only the date matters to what is rendered.                              *)
(***************************************************************************)
ChartsWithSummary == {"sleep", "bloodPressure"}

Noon == 12 * 60 * 60 * 1000

\* The dates a reading may have: in the week of the default date, some
\* weeks, some months and a year before it, and after it.
ReadingDates ==
    { MakeDate(2025, 3, 29, Noon), MakeDate(2025, 3, 10, Noon), MakeDate(2025, 1, 15, Noon),
      MakeDate(2024, 6, 20, Noon), MakeDate(2025, 5, 20, Noon) }

\* d.date >= start && d.date <= end
InRange(d, range) == DateLE(range.start, d) /\ DateLE(d, range.end)

weekData(t) == {d \in readings : InRange(d, getDateRange(t, currentDate[t]))}

threeMonthData(t) == {d \in readings : InRange(d, getThreeMonthRange(currentDate[t]))}

\* The summaries are null exactly when their array is empty.
SummaryOf(rows) == [isNull |-> rows = {}, totalReadings |-> Cardinality(rows)]
weekSummary(t) == SummaryOf(weekData(t))
threeMonthSummary(t) == SummaryOf(threeMonthData(t))

\* Which blocks below the chart the component renders.
SleepChartRender ==
    LET summaries == viewMode = "physician" /\ ~weekSummary("sleep").isNull
    IN  [weekSummary |-> summaries,
         threeMonthSummary |-> summaries /\ ~threeMonthSummary("sleep").isNull,
         infoBox |-> FALSE]

BloodPressureChartRender ==
    LET summaries == viewMode = "physician" /\ ~weekSummary("bloodPressure").isNull
    IN  [weekSummary |-> summaries,
         threeMonthSummary |-> summaries /\ ~threeMonthSummary("bloodPressure").isNull,
         infoBox |-> ~summaries]

ChartRender(t) == IF t = "sleep" THEN SleepChartRender ELSE BloodPressureChartRender

InitChart ==
    /\ \E t \in ChartsWithSummary : currentDate = (t :> DefaultInitialDate)
    /\ navOffset = [t \in DOMAIN currentDate |-> 0]
    /\ viewMode \in ViewModes
    /\ readings \in SUBSET ReadingDates
    /\ patientProp = "Patient_001"
    /\ patientId = "Patient_001"
    /\ data = NullData
    /\ loading = FALSE
    /\ error = NULL
    /\ lastFetchedId = NULL
    /\ inflight = [p \in Patients |-> 0]
    /\ effectPending = FALSE
    /\ overlapped = FALSE
    /\ syncPending = FALSE
    /\ expandedItem = NULL
    /\ errorBoundary = InitialBoundary

NextChart ==
    \E t \in ChartsWithSummary :
        \/ goToPrevious(t) /\ UNCHANGED <<helperVars, hookVars, propVars, errorBoundary, readings>>
        \/ goToNext(t) /\ UNCHANGED <<helperVars, hookVars, propVars, errorBoundary, readings>>

SpecChart == InitChart /\ [][NextChart]_vars

(***************************************************************************)
(* App: the role toggle and the patient selector.  App passes currentRole  *)
(* to the dashboard as viewMode and selectedPatient as patientId; the      *)
(* dashboard is loaded lazily and is not part of this specification.       *)
(***************************************************************************)
currentRole == viewMode
selectedPatient == patientProp

\* The number of synthetic patients.
NumPatients == 100

PatientName(i) ==
    "Patient_" \o (IF i < 10 THEN "00" ELSE IF i < 100 THEN "0" ELSE "") \o ToString(i)

PATIENTS == {PatientName(i) : i \in 1..NumPatients}

\* The values of the options of the select element.
SelectOptions == {""} \cup PATIENTS

\* Faulty variant of NextRole: the toggle only switches to the physician view.
NextRole_PhysicianOnly(prev) == "physician"

\* The updater toggleRole passes to setCurrentRole.
NextRole(prev) == IF prev = "patient" THEN "physician" ELSE "patient"

toggleRole ==
    /\ viewMode' = NextRole(currentRole)
    /\ UNCHANGED <<patientProp, syncPending, expandedItem, navVars, hookVars, errorBoundary, readings>>

\* The onChange of PatientSelector: setSelectedPatient(e.target.value).
setSelectedPatient(value) ==
    /\ value # selectedPatient
    /\ patientProp' = value
    /\ UNCHANGED <<viewMode, syncPending, expandedItem, navVars, hookVars, errorBoundary, readings>>

InitApp ==
    /\ viewMode = "patient"
    /\ patientProp = "Patient_001"
    /\ errorBoundary = InitialBoundary
    /\ readings = {}
    /\ patientId = ""
    /\ data = NullData
    /\ loading = FALSE
    /\ error = NULL
    /\ lastFetchedId = NULL
    /\ inflight = [p \in Patients |-> 0]
    /\ effectPending = FALSE
    /\ overlapped = FALSE
    /\ syncPending = FALSE
    /\ expandedItem = NULL
    /\ NoNavigation

NextApp ==
    \/ toggleRole
    \/ \E value \in SelectOptions : setSelectedPatient(value)

SpecApp == InitApp /\ [][NextApp]_vars

(***************************************************************************)
(* App with its ErrorBoundary: a child may throw while rendering; the role *)
(* toggle and the patient selector lie outside the boundary and stay in    *)
(* use.                                                                    *)
(***************************************************************************)
NextBoundary ==
    \/ BoundaryIdle /\ toggleRole
    \/ \E value \in SelectOptions : BoundaryIdle /\ setSelectedPatient(value)
    \/ \E err \in ThrownErrors, componentStack \in ComponentStacks :
          ChildThrows(err, componentStack)
    \/ componentDidCatch
    \/ reloadPage

SpecBoundary == InitApp /\ [][NextBoundary]_vars

(***************************************************************************)
(* Claims about useChartNavigation, checked under SpecNav.                 *)
(***************************************************************************)
\* Position of a calendar month on the month line.
MonthIndex(D) == D.year * 12 + D.month

\* 2024-06-30 was a Sunday: the weekday of D counted from that day, 0 = Sunday.
WeekdayFromAnchor(D) == (DayOf(D) - DayNumber(2024, 5, 30)) % 7

InsideDataSpan(D) == DateLE(dataStartDate, D) /\ DateLE(D, dataEndDate)

\* C1: after any sequence of goToPrevious/goToNext calls, both endpoints
\* returned by getThreeMonthRange lie inside the data span
\* (July 1 2024 .. July 31 2025).
C1_ThreeMonthRangeInsideSpan ==
    \A t \in DOMAIN currentDate :
        LET r == getThreeMonthRange(currentDate[t])
        IN  InsideDataSpan(r.start) /\ InsideDataSpan(r.end)

\* C5: navigation is by month (type 'month', label 'Month') exactly for chart
\* type 'mood' and by week ('week', 'Week') for every other chart type, in
\* every state of the hook, whatever navigation has happened.
C5_NavigationTypeByChartType ==
    \A t \in DOMAIN currentDate :
        /\ (t = "mood") => (navigationType(t) = "month" /\ navigationLabel(t) = "Month")
        /\ (t # "mood") => (navigationType(t) = "week" /\ navigationLabel(t) = "Week")

C5_Witness ==
    /\ \E t \in DOMAIN currentDate : t = "mood" /\ navOffset[t] = 2
    /\ navigationType("mood") = "month"
    /\ navigationType("sleep") = "week"

\* C6: in week mode getDateRange returns start = the Sunday on or before
\* currentDate at 00:00:00.000 and end = the Saturday six days later at
\* 23:59:59.999, and start <= currentDate <= end.
C6_WeekRange ==
    \A t \in DOMAIN currentDate :
        navigationType(t) = "week" =>
            LET cur == currentDate[t]
                r   == getDateRange(t, cur)
            IN  /\ WeekdayFromAnchor(r.start) = 0
                /\ r.start.ms = 0
                /\ DayOf(r.start) <= DayOf(cur)
                /\ DayOf(cur) - DayOf(r.start) <= 6
                /\ DayOf(r.end) = DayOf(r.start) + 6
                /\ WeekdayFromAnchor(r.end) = 6
                /\ r.end.ms = EndOfDayMs
                /\ r.start.date \in 1..DaysInMonth(r.start.year, r.start.month)
                /\ r.end.date \in 1..DaysInMonth(r.end.year, r.end.month)
                /\ DateLE(r.start, cur)
                /\ DateLE(cur, r.end)

\* A week window that spans two months, reached by navigation.
C6_Witness ==
    \E t \in DOMAIN currentDate :
        /\ navigationType(t) = "week"
        /\ navOffset[t] # 0
        /\ getDateRange(t, currentDate[t]).start.month
               # getDateRange(t, currentDate[t]).end.month
        /\ currentDate[t].ms = EndOfDayMs

\* C7: in month mode getDateRange returns the first and the last day of the
\* calendar month that contains currentDate.
C7_MonthRange ==
    \A t \in DOMAIN currentDate :
        navigationType(t) = "month" =>
            LET cur == currentDate[t]
                r   == getDateRange(t, cur)
            IN  /\ r.start.year = cur.year /\ r.start.month = cur.month
                /\ r.start.date = 1
                /\ r.end.year = cur.year /\ r.end.month = cur.month
                /\ r.end.date = DaysInMonth(cur.year, cur.month)

\* Month mode, after navigation, in a leap-year February and in a December.
C7_Witness ==
    \E t \in DOMAIN currentDate :
        /\ navigationType(t) = "month"
        /\ navOffset[t] # 0
        /\ currentDate[t].year = 2024
        /\ currentDate[t].month = 1
        /\ getDateRange(t, currentDate[t]).end.date = 29

\* C8: in week mode goToNext moves currentDate forward by exactly 7 days and
\* goToPrevious back by exactly 7 days; the new week window is the adjacent
\* one (it starts the millisecond after the old one ends, or ends the
\* millisecond before the old one starts) and the weekday of currentDate is
\* unchanged.
C8_WeekStep ==
    [][\A t \in DOMAIN currentDate :
         navigationType(t) = "week" =>
            LET old  == currentDate[t]
                new  == currentDate'[t]
                oldR == getDateRange(t, old)
                newR == getDateRange(t, new)
            IN  /\ (navOffset'[t] = navOffset[t] + 1) =>
                      /\ DayOf(new) = DayOf(old) + 7
                      /\ new.ms = old.ms
                      /\ DayOf(newR.start) = DayOf(oldR.end) + 1
                      /\ oldR.end.ms = EndOfDayMs /\ newR.start.ms = 0
                /\ (navOffset'[t] = navOffset[t] - 1) =>
                      /\ DayOf(new) = DayOf(old) - 7
                      /\ new.ms = old.ms
                      /\ DayOf(oldR.start) = DayOf(newR.end) + 1
                      /\ newR.end.ms = EndOfDayMs /\ oldR.start.ms = 0
                /\ WeekdayFromAnchor(new) = WeekdayFromAnchor(old)]_vars

\* Week mode, three steps forward, the last of them into a new month.
C8_Witness ==
    \E t \in DOMAIN currentDate :
        /\ navigationType(t) = "week"
        /\ navOffset[t] = 3
        /\ currentDate[t].date <= 7

\* C9: in month mode goToNext moves the month window of getDateRange to the
\* calendar month immediately after the current one and goToPrevious to the
\* one immediately before; no month is skipped.
C9_MonthStep ==
    [][\A t \in DOMAIN currentDate :
         navigationType(t) = "month" =>
            LET oldR == getDateRange(t, currentDate[t])
                newR == getDateRange(t, currentDate'[t])
            IN  /\ (navOffset'[t] = navOffset[t] + 1) =>
                      MonthIndex(newR.start) = MonthIndex(oldR.start) + 1
                /\ (navOffset'[t] = navOffset[t] - 1) =>
                      MonthIndex(newR.start) = MonthIndex(oldR.start) - 1]_vars

(***************************************************************************)
(* Claims about useVisualizations, checked under SpecViz.                  *)
(***************************************************************************)
\* The array the documentation names for a metric key.
MetricArrayField(key) == IF key = "mealContents" THEN "mealData" ELSE key \o "Data"

AvailableKeys == {availableVisualizations(data)[i] : i \in 1..Len(availableVisualizations(data))}

\* C2: availableVisualizations contains a metric key exactly when that
\* metric's data array (data[key + 'Data'], data.mealData for mealContents)
\* is present and non-empty; it contains no other key, and nothing when
\* data is null.
C2_AvailableIffNonEmpty ==
    /\ AvailableKeys \subseteq RegistryKeys
    /\ Len(availableVisualizations(data)) = Cardinality(AvailableKeys)
    /\ \A key \in RegistryKeys :
          key \in AvailableKeys <=>
             /\ data.kind = "object"
             /\ MetricArrayField(key) \in DOMAIN data.fields
             /\ data.fields[MetricArrayField(key)].present
             /\ data.fields[MetricArrayField(key)].len >= 1

\* A data object with a non-empty, an empty and an absent array.
C2_Witness ==
    /\ data.kind = "object"
    /\ data.fields["mealData"] = ArrayOf(1)
    /\ data.fields["glucoseData"] = ArrayOf(0)
    /\ data.fields["sleepData"] = Undefined
    /\ data.fields["moodData"] = ArrayOf(1)
    /\ availableVisualizations(data) = <<"mealContents", "mood">>

ExpandedCharts ==
    {id \in ChartIds :
        \E type \in RegistryKeys : renderVisualizationWithMode(type, id).isExpanded}

\* C4: at most one chart id is expanded; a chart is rendered with isExpanded
\* true only if its id equals expandedItem; and handleExpand(id) sets
\* expandedItem to id when it was not id and to null when it was id.
C4_AtMostOneExpanded ==
    /\ [](/\ Cardinality(ExpandedCharts) <= 1
          /\ \A id \in ExpandedCharts : id = expandedItem)
    /\ [][\A id \in ChartIds :
            handleExpand(id) =>
               expandedItem' = (IF expandedItem = id THEN NULL ELSE id)]_vars

\* A chart of a selected patient is rendered expanded.
C4_Witness ==
    /\ viewMode = "physician"
    /\ patientId = "Patient_002"
    /\ data = ServiceRecord("Patient_002")
    /\ expandedItem = ChartId("physician", 1)
    /\ ExpandedCharts = {ChartId("physician", 1)}

\* C10: each of the seven chart types has its own navigation date: a step
\* changes the currentDate of at most one chart type (the one navigated),
\* and a step that expands or collapses a chart changes no currentDate.
C10_NavigationDatesIndependent ==
    [][/\ DOMAIN currentDate' = DashboardChartTypes
       /\ Cardinality(DashboardChartTypes) = 7
       /\ \A t \in DashboardChartTypes :
             currentDate'[t] # currentDate[t] =>
                /\ navOffset'[t] # navOffset[t]
                /\ \A u \in DashboardChartTypes \ {t} :
                      /\ currentDate'[u] = currentDate[u]
                      /\ navOffset'[u] = navOffset[u]
       /\ expandedItem' # expandedItem => currentDate' = currentDate]_vars

\* One chart has been navigated and a chart is expanded; the other six
\* charts are on the default date.
C10_Witness ==
    /\ expandedItem # NULL
    /\ currentDate["mood"] = MakeDate(2025, 5, 1, 0)
    /\ \A u \in DashboardChartTypes \ {"mood"} : currentDate[u] = DefaultInitialDate

(***************************************************************************)
(* Claims about what the dashboards render, checked under SpecRender.      *)
(***************************************************************************)
\* A visualization type that is not a key of the registry.
UnregisteredTypes == {"weight"}
RenderTypes == RegistryKeys \cup UnregisteredTypes

\* C11: every chart component PatientDashboard renders receives viewMode
\* 'patient' and every chart component PhysicianDashboard renders receives
\* viewMode 'physician', for every visualization type and whether the chart
\* is expanded or not.
C11_ViewModePassedThrough ==
    \A type \in RenderTypes, id \in ChartIds :
        /\ LET r == renderVisualizationWithMode(type, id)
           IN  r.kind = "chart" => r.viewMode = viewMode
        /\ PatientRender(type, id).kind = "chart" =>
              PatientRender(type, id).viewMode = "patient"
        /\ PhysicianRender(type, id).kind = "chart" =>
              PhysicianRender(type, id).viewMode = "physician"

\* The physician dashboard renders an expanded and a collapsed chart.
C11_Witness ==
    /\ viewMode = "physician"
    /\ patientId = "Patient_001"
    /\ LET a == renderVisualizationWithMode("sleep", ChartId("physician", 6))
           b == renderVisualizationWithMode("pain", ChartId("physician", 0))
       IN  /\ a.kind = "chart" /\ a.isExpanded /\ a.viewMode = "physician"
           /\ b.kind = "chart" /\ ~b.isExpanded /\ b.viewMode = "physician"

(***************************************************************************)
(* A claim about the grid of PhysicianDashboard, checked under SpecViz.    *)
(***************************************************************************)
\* No metric array of the patient data is non-empty.
NoMetricData == \A f \in MetricFields : ~(data.fields[f].present /\ data.fields[f].len >= 1)

LoadedFor(id) == lastFetchedId = id /\ data.kind = "object" /\ error = NULL

\* C13: once data for patient P is loaded (lastFetchedId = P, data non-null,
\* error null), a run of the effect, which calls loadData(P), issues no call
\* to DataService.getPatientData and leaves data, error and loading as they
\* are.
C13_LoadedDataNotFetchedAgain ==
    [][\A P \in Patients :
         (FlushEffects(MaxInflight) /\ effectPending /\ patientId = P /\ LoadedFor(P)) =>
            /\ inflight' = inflight
            /\ data' = data
            /\ error' = error
            /\ loading' = loading]_vars

\* The effect has run again after a successful load and nothing is in flight.
C13_Witness ==
    /\ patientId = "Patient_002"
    /\ LoadedFor("Patient_002")
    /\ data = ServiceRecord("Patient_002")
    /\ ~effectPending
    /\ ~loading
    /\ InflightTotal(inflight) = 0

\* The state refetch leaves when data for patient id was loaded: the record
\* is still there, lastFetchedId is null and the effect is due.
Refetched(id) ==
    /\ patientId = id
    /\ data.kind = "object"
    /\ error = NULL
    /\ lastFetchedId = NULL
    /\ effectPending

\* C14: refetch with a patient selected leads to a new call to
\* DataService.getPatientData for that patient: at once when no data is
\* loaded for the patient, and, when data is loaded without error, in the
\* run of the effect that follows the reset of lastFetchedId (as long as the
\* model's bound on promises in flight leaves room for one more).
C14_RefetchIssuesFetch ==
    /\ [][\A P \in Patients :
            (refetch /\ patientId = P) =>
               IF LoadedFor(P)
               THEN Refetched(P)' /\ inflight' = inflight
               ELSE inflight'[P] = inflight[P] + 1]_vars
    /\ \A P \in Patients : \A n \in 0..MaxInflight :
          (Refetched(P) /\ inflight[P] = n /\ InflightTotal(inflight) < MaxInflight)
             ~> (patientId = P /\ inflight[P] = n + 1 /\ loading)

\* Data was loaded, refetch was called and the new promise is in flight.
C14_Witness ==
    /\ patientId = "Patient_001"
    /\ data = ServiceRecord("Patient_001")
    /\ lastFetchedId = NULL
    /\ ~effectPending
    /\ loading
    /\ inflight["Patient_001"] = 1

\* The state clearData sets.
Cleared == data = NullData /\ error = NULL /\ lastFetchedId = NULL /\ ~loading

\* Nothing is due that changes the hook's state without a call by its user:
\* no effect is pending and no promise is in flight.
Quiescent == ~effectPending /\ InflightTotal(inflight) = 0

\* C15: after clearData is called while a patient is selected and loaded, the
\* hook has data = null, error = null, lastFetchedId = null and loading =
\* false and stays so until the patient id changes or refetch is called:
\* the state clearData leaves is cleared and nothing is due that changes it.
C15_ClearDataStaysCleared ==
    [][\A P \in Patients :
         (clearData /\ patientId = P /\ LoadedFor(P)) => (Cleared' /\ Quiescent')]_vars

(***************************************************************************)
(* Claims about App, checked under SpecApp.                                *)
(***************************************************************************)
\* C16: currentRole is always 'patient' or 'physician'; toggleRole flips it
\* to the other value, so that two toggles in a row restore it; toggleRole
\* leaves selectedPatient unchanged and selecting a patient leaves
\* currentRole unchanged.
C16_RoleToggle ==
    /\ [](currentRole \in {"patient", "physician"})
    /\ [](NextRole(NextRole(currentRole)) = currentRole)
    /\ [][toggleRole =>
            /\ currentRole' \in {"patient", "physician"} \ {currentRole}
            /\ selectedPatient' = selectedPatient]_vars
    /\ [][\A value \in SelectOptions :
            setSelectedPatient(value) =>
               /\ currentRole' = currentRole
               /\ selectedPatient' = value]_vars

\* The physician view after a toggle, with another patient selected.
C16_Witness ==
    /\ currentRole = "physician"
    /\ selectedPatient = "Patient_100"

(***************************************************************************)
(* Claims about ErrorBoundary, checked under SpecBoundary.                 *)
(***************************************************************************)
\* C17: once ErrorBoundary has caught an error from a child, hasError is true
\* in every later state of the component (no operation resets it), and
\* render returns the fallback UI and never the children.
C17_ErrorIsSticky ==
    /\ [][\A err \in ThrownErrors, componentStack \in ComponentStacks :
            ChildThrows(err, componentStack) => errorBoundary'.state.hasError]_vars
    /\ [][errorBoundary.state.hasError => errorBoundary'.state.hasError]_vars
    /\ [](errorBoundary.state.hasError =>
             \A nodeEnv \in NodeEnvs : render(nodeEnv).kind = "fallback")

\* The error has been recorded by componentDidCatch and, with the fallback
\* UI shown, another patient and the other role have been selected.
C17_Witness ==
    /\ errorBoundary.state.hasError
    /\ errorBoundary.state.error = "RangeError: Invalid time value"
    /\ errorBoundary.state.errorInfo = "at SleepChart"
    /\ errorBoundary.caught = NoCaught
    /\ currentRole = "physician"
    /\ selectedPatient = "Patient_042"
    /\ render("development") =
          [kind |-> "fallback", details |-> TRUE, viewMode |-> "", patientId |-> ""]

(***************************************************************************)
(* Claims about the chart components, checked under SpecChart.             *)
(***************************************************************************)
\* C18: in physician mode BloodPressureChart and SleepChart render the
\* 3-month summary whenever the three-month window holds at least one
\* reading, at every navigation date; in patient mode they render no summary.
C18_ThreeMonthSummaryShown ==
    \A t \in DOMAIN currentDate :
        /\ (viewMode = "physician" /\ threeMonthData(t) # {}) =>
              ChartRender(t).threeMonthSummary
        /\ viewMode = "patient" =>
              (~ChartRender(t).weekSummary /\ ~ChartRender(t).threeMonthSummary)

(***************************************************************************)
(* A claim about the placeholders, checked under SpecRender.               *)
(***************************************************************************)
\* C19: useVisualizationHelpers.renderVisualization and
\* PhysicianDashboard.renderVisualizationWithMode return a chart component
\* only when a patient id is selected and the visualization type is in the
\* registry: with no patient selected they return the 'Please select a
\* patient to view data.' placeholder for every type, registered or not, and
\* with a patient selected and an unregistered type the 'Invalid
\* visualization' placeholder.
C19_PlaceholderGuards ==
    \A type \in RenderTypes, id \in ChartIds :
        \A r \in {renderVisualization(type, id), PhysicianRender(type, id)} :
            /\ patientId = "" =>
                  r = Placeholder("Please select a patient to view data.")
            /\ (patientId # "" /\ type \notin RegistryKeys) =>
                  r = Placeholder("Invalid visualization")
            /\ r.kind = "chart" => (patientId # "" /\ type \in RegistryKeys)

\* The physician dashboard with no patient selected, asked for a type that
\* is not registered and for one that is.
C19_Witness ==
    /\ viewMode = "physician"
    /\ patientId = ""
    /\ ~effectPending /\ ~syncPending
    /\ \A type \in {"weight", "glucose"} :
          renderVisualizationWithMode(type, ChartId("physician", 2)).message =
             "Please select a patient to view data."

(***************************************************************************)
(* Further claims about useVisualizations, checked under SpecViz.          *)
(***************************************************************************)
\* The order in which the registry lists the visualization keys.
RegistryOrder ==
    [pain |-> 1, bloodPressure |-> 2, glucose |-> 3, exercise |-> 4,
     mealContents |-> 5, mood |-> 6, sleep |-> 7]

\* C20: selectedVisualizations maps the chart ids '<viewMode>-chart-0' ..
\* '<viewMode>-chart-(n-1)' one-to-one onto the n available visualization
\* keys, in registry order (pain, bloodPressure, glucose, exercise,
\* mealContents, mood, sleep), and each of its values is a key of
\* allVisualizations.
C20_SelectedVisualizations ==
    LET sel == selectedVisualizations(viewMode, data)
        n   == Cardinality(AvailableKeys)
        id(i) == viewMode \o "-chart-" \o ToString(i)
    IN  /\ DOMAIN sel = {id(i) : i \in 0..(n - 1)}
        /\ Cardinality(DOMAIN sel) = n
        /\ {sel[c] : c \in DOMAIN sel} = AvailableKeys
        /\ \A a, b \in DOMAIN sel : sel[a] = sel[b] => a = b
        /\ \A c \in DOMAIN sel : sel[c] \in RegistryKeys /\ sel[c] \in DOMAIN RegistryOrder
        /\ \A i, j \in 0..(n - 1) :
              i < j => RegistryOrder[sel[id(i)]] < RegistryOrder[sel[id(j)]]

\* Three metrics that are not neighbours in the registry are available.
C20_Witness ==
    /\ viewMode = "physician"
    /\ availableVisualizations(data) = <<"bloodPressure", "mealContents", "sleep">>
    /\ selectedVisualizations(viewMode, data) =
          [c \in {"physician-chart-0", "physician-chart-1", "physician-chart-2"} |->
              IF c = "physician-chart-0" THEN "bloodPressure"
              ELSE IF c = "physician-chart-1" THEN "mealContents" ELSE "sleep"]

(***************************************************************************)
(* A claim about PhysicianDashboard, checked under SpecRenderFair.         *)
(***************************************************************************)
selectedPatientId == patientId

\* C21: PhysicianDashboard follows its patientId prop: whenever the prop is
\* non-empty, selectedPatientId eventually equals it, and while the prop is
\* empty selectedPatientId keeps the value it had.
C21_SelectedPatientFollowsProp ==
    /\ \A p \in Patients :
          (viewMode = "physician" /\ patientProp = p) ~> (selectedPatientId = p)
    /\ [][(viewMode = "physician" /\ patientProp' = "") =>
             selectedPatientId' = selectedPatientId]_vars

\* The prop went from one patient to another and then to the empty value:
\* the second patient is still selected.
C21_Witness ==
    /\ viewMode = "physician"
    /\ patientProp = ""
    /\ selectedPatientId = "Patient_002"
    /\ lastFetchedId = "Patient_001"
    /\ ~syncPending

(***************************************************************************)
(* A claim about usePatientData without a patient, under SpecDataFair.     *)
(***************************************************************************)
\* The patient ids that are empty or not a string.
NoPatientIds == {""} \cup NonStringIds

\* C22: when the patient id is empty or not a string, usePatientData issues
\* no call to DataService.getPatientData, and it ends with data = null,
\* error = null and loading = false: that is its state whenever no effect
\* is due, and the state it comes to while the id stays as it is.
C22_NoPatientNoFetch ==
    /\ [][(patientId \in NoPatientIds) =>
             (\A p \in Patients : inflight'[p] <= inflight[p])]_vars
    /\ []((patientId \in NoPatientIds /\ ~effectPending) =>
             (data = NullData /\ error = NULL /\ ~loading))
    /\ \A id \in NoPatientIds :
          (patientId = id) ~>
             (patientId # id \/ (data = NullData /\ error = NULL /\ ~loading))

\* A number is passed as patient id after Patient_001 was loaded, and the
\* hook is at rest.
C22_Witness ==
    /\ patientId = "<number 42>"
    /\ lastFetchedId = "Patient_001"
    /\ data = NullData /\ error = NULL /\ ~loading
    /\ Quiescent

(***************************************************************************)
(* A claim about the three-month window, checked under SpecChart.          *)
(***************************************************************************)
\* Neither test of getThreeMonthRange against the data span fires for cur.
Unclamped(cur) ==
    /\ ~DateLT(setMonth(cur, cur.month - 3), dataStartDate)
    /\ ~DateLT(dataEndDate, cur)

\* C23: when neither bound of the data span clamps it, the window returned
\* by getThreeMonthRange runs from the date three calendar months before
\* currentDate, on the same day of the month, to currentDate itself, at every
\* currentDate navigation reaches.
C23_UnclampedThreeMonthWindow ==
    \A t \in DOMAIN currentDate :
        LET cur == currentDate[t]
            r   == getThreeMonthRange(cur)
        IN  Unclamped(cur) =>
               /\ r.end = cur
               /\ MonthIndex(r.start) = MonthIndex(cur) - 3
               /\ r.start.date = cur.date
               /\ r.start.ms = cur.ms

=============================================================================
